---- MODULE Spec2Model ----
(***************************************************************************)
(* A model of translation_script.py: the glossary pretranslation of a row, *)
(* the aggregation of spreadsheet documents into a '|'-delimited table,    *)
(* the placeholder repair of that table, and the flattening of a tree of   *)
(* .xml files, with phase 2 of the script that chains the last two.        *)
(*                                                                         *)
(* Text is a sequence of one-character strings, so that splitting,         *)
(* stripping, title-casing, searching, replacing, and the csv escaping are *)
(* computed character by character as Python computes them.  Python's     *)
(* None is the value None below.  The csv dialect is the one the script    *)
(* asks for on the interpreters it runs on (quotechar='' meaning "no quote *)
(* character", CPython up to 3.10).                                        *)
(***************************************************************************)
EXTENDS Integers, Sequences, FiniteSets, TLC

(***************************************************************************)
(* Bounds of the model.                                                    *)
(***************************************************************************)
MaxEntries == 2      \* ';'-separated entries in a Glossary field
MaxTokens == 2       \* space-separated tokens in a Source field
MaxDocs == 2         \* documents in the list given to aggregate_xmls
MaxPieces == 3       \* pieces a Target of the table to repair is made of
MaxDepth == 2        \* directories nested under the source root

(***************************************************************************)
(* Text.                                                                   *)
(***************************************************************************)
\* Python's None, as a field of a row (no text is equal to it).
None == <<"<None>">>

RECURSIVE CatRange(_, _, _)
\* The concatenation of parts[lo..hi], by halves.
CatRange(parts, lo, hi) ==
    IF lo > hi THEN <<>>
    ELSE IF lo = hi THEN parts[lo]
    ELSE LET mid == (lo + hi) \div 2
         IN  CatRange(parts, lo, mid) \o CatRange(parts, mid + 1, hi)

\* The concatenation of a sequence of texts.
Cat(parts) == CatRange(parts, 1, Len(parts))

Lower == << "a", "b", "c", "d", "e", "f", "g", "h", "i", "j", "k", "l", "m",
           "n", "o", "p", "q", "r", "s", "t", "u", "v", "w", "x", "y", "z" >>
Upper == << "A", "B", "C", "D", "E", "F", "G", "H", "I", "J", "K", "L", "M",
           "N", "O", "P", "Q", "R", "S", "T", "U", "V", "W", "X", "Y", "Z" >>
\* str.split() / str.strip() whitespace.
Whitespace == {" ", "\t", "\n", "\r"}

IsLower(c) == \E i \in 1..Len(Lower) : Lower[i] = c
IsUpper(c) == \E i \in 1..Len(Upper) : Upper[i] = c
IsCased(c) == IsLower(c) \/ IsUpper(c)
ToUpper(c) == IF IsLower(c) THEN Upper[CHOOSE i \in 1..Len(Lower) : Lower[i] = c] ELSE c
ToLower(c) == IF IsUpper(c) THEN Lower[CHOOSE i \in 1..Len(Upper) : Upper[i] = c] ELSE c

\* str.title(): a cased character is upper-cased when the character before it
\* is not cased (or there is none) and lower-cased otherwise; an uncased
\* character is kept.
Title(s) ==
    [i \in 1..Len(s) |->
        IF ~IsCased(s[i]) THEN s[i]
        ELSE IF i > 1 /\ IsCased(s[i - 1]) THEN ToLower(s[i])
        ELSE ToUpper(s[i])]

\* str.strip(): the text without its leading and trailing whitespace.
Strip(s) ==
    LET keep == {i \in 1..Len(s) : s[i] \notin Whitespace}
    IN  IF keep = {} THEN <<>>
        ELSE LET lo == CHOOSE i \in keep : \A j \in keep : i <= j
                 hi == CHOOSE i \in keep : \A j \in keep : i >= j
             IN  SubSeq(s, lo, hi)

RECURSIVE Split(_, _)
\* str.split(sep) for a one-character separator: the pieces between the
\* occurrences of sep, empty pieces kept (always at least one piece).
Split(s, sep) ==
    LET at == {i \in 1..Len(s) : s[i] = sep}
    IN  IF at = {} THEN <<s>>
        ELSE LET p == CHOOSE i \in at : \A j \in at : i <= j
             IN  <<SubSeq(s, 1, p - 1)>> \o Split(SubSeq(s, p + 1, Len(s)), sep)

RECURSIVE Join(_, _)
\* sep.join(parts)
Join(parts, sep) ==
    IF parts = <<>> THEN <<>>
    ELSE IF Len(parts) = 1 THEN parts[1]
    ELSE parts[1] \o sep \o Join(Tail(parts), sep)

(***************************************************************************)
(* pretranslate_row                                                        *)
(***************************************************************************)
\* row_items[i] of a Python list (indices from 0).
At(row, i) == row[i + 1]
SetAt(row, i, v) == [row EXCEPT ![i + 1] = v]

\* glossary[key] = value on a dict: a later assignment to a key replaces the
\* earlier one.
DictSet(dict, key, value) ==
    [k \in (DOMAIN dict) \cup {key} |-> IF k = key THEN value ELSE dict[k]]

EmptyDict == [k \in {} |-> <<>>]

\* pair = [value.strip() for value in pair.split("=")]
ParsePair(entry) ==
    LET pieces == Split(entry, "=")
    IN  [i \in 1..Len(pieces) |-> Strip(pieces[i])]

\* A slip in the order of the two assignments: the alias first.
AddPairAliasFirst(glossary, pair) ==
    IF Len(pair) = 2
    THEN DictSet(DictSet(glossary, Title(pair[1]), Title(pair[2])), pair[1], pair[2])
    ELSE glossary

\* A slip in the test of the entry's shape: anything with an '=' is taken.
AddPairLenient(glossary, pair) ==
    IF Len(pair) >= 2
    THEN DictSet(DictSet(glossary, pair[1], pair[2]), Title(pair[1]), Title(pair[2]))
    ELSE glossary

\* The body of the loop: an entry with exactly one '=' assigns the term and
\* then its title-cased alias; any other entry is passed over.
AddPair(glossary, pair) ==
    IF Len(pair) = 2
    THEN DictSet(DictSet(glossary, pair[1], pair[2]), Title(pair[1]), Title(pair[2]))
    ELSE glossary

RECURSIVE BuildFrom(_, _)
\* The loop over row_items[5].split(";"), from the dict built so far.
BuildFrom(glossary, entries) ==
    IF entries = <<>> THEN glossary
    ELSE BuildFrom(AddPair(glossary, ParsePair(Head(entries))), Tail(entries))

BuildGlossary(text) == BuildFrom(EmptyDict, Split(text, ";"))

\* A slip in the lookup: a word is matched through its title-cased form.
TranslateAnyCase(glossary, word) ==
    IF word \in DOMAIN glossary THEN glossary[word]
    ELSE IF Title(word) \in DOMAIN glossary THEN glossary[Title(word)]
    ELSE word

\* glossary[word] if word in glossary else word
Translate(glossary, word) == IF word \in DOMAIN glossary THEN glossary[word] ELSE word

\* " ".join([... for word in row_items[2].split(" ")])
Substitute(glossary, source) ==
    LET words == Split(source, " ")
    IN  Join([i \in 1..Len(words) |-> Translate(glossary, words[i])], <<" ">>)

\* The call raises: row_items[5] on a short list (IndexError), or .split on a
\* Source or Glossary that is not text (AttributeError).
PretranslateRaises(row_items) ==
    \/ Len(row_items) < 6
    \/ At(row_items, 5) # None /\ At(row_items, 2) = None

\* The row pretranslate_row returns when it returns.
pretranslate_row(row_items) ==
    IF At(row_items, 5) = None
    THEN SetAt(row_items, 3, At(row_items, 2))
    ELSE SetAt(row_items, 3, Substitute(BuildGlossary(At(row_items, 5)), At(row_items, 2)))

(***************************************************************************)
(* The csv dialect of the script: delimiter '|', QUOTE_NONE, escapechar    *)
(* '\', no quote character; files opened in text mode without newline=''.  *)
(***************************************************************************)
Delimiter == "|"
EscapeChar == "\\"
CR == "\r"
LF == "\n"
\* csv.writer's default lineterminator.
LineTerminator == <<CR, LF>>
\* The end-of-line call parse_process_char(self, 0) the reader makes after the
\* characters of each line.
EOL == "<EOL>"

\* csv.writer under QUOTE_NONE: the delimiter, the escape character and the
\* characters of the line terminator are written behind an escape character.
NeedsEscape(c) == c = Delimiter \/ c = EscapeChar \/ c = CR \/ c = LF

\* One field as the writer writes it; None is written as the empty text.
WriteField(field) ==
    IF field = None THEN <<>>
    ELSE Cat([i \in 1..Len(field) |->
                 IF NeedsEscape(field[i]) THEN <<EscapeChar, field[i]>> ELSE <<field[i]>>])

\* writer.writerow raises csv.Error ("single empty field record must be
\* quoted") on a record of one empty field.
WriteRaises(row) == Len(row) = 1 /\ row[1] \in {<<>>, None}

\* writer.writerow(row): the text added to the file.
WriteRow(row) ==
    Join([i \in 1..Len(row) |-> WriteField(row[i])], <<Delimiter>>) \o LineTerminator

\* Reading a text-mode file opened without newline='': universal newlines
\* turn each "\r\n" and each lone "\r" into "\n".
UniversalNewlines(text) ==
    LET keep == {i \in 1..Len(text) : ~(text[i] = CR /\ i < Len(text) /\ text[i + 1] = LF)}
        kept == SelectSeq([i \in 1..Len(text) |-> <<i, text[i]>>], LAMBDA p : p[1] \in keep)
    IN  [i \in 1..Len(kept) |-> IF kept[i][2] = CR THEN LF ELSE kept[i][2]]

\* The characters the reader is fed: those of each line the file iterator
\* yields (a line ends behind its "\n"), each line followed by the
\* end-of-line call.
LinesWithEOL(text) ==
    Cat([i \in 1..Len(text) |->
            IF text[i] = LF \/ i = Len(text) THEN <<text[i], EOL>> ELSE <<text[i]>>])

IsNewline(c) == c = LF \/ c = CR

\* The reader before its first character.
ReaderStart == [state |-> "START_RECORD", fields |-> <<>>, field |-> <<>>, records |-> <<>>]

\* parse_process_char: the reader r (its state, the fields saved for the
\* record being read, the field being read, the records returned so far) after
\* the character c.
ProcessChar(r, c) ==
    LET SaveField == Append(r.fields, r.field)
        \* the branches START_FIELD and IN_FIELD share
        EndOfLine ==
            IF c = EOL
            THEN [state |-> "START_RECORD", fields |-> <<>>, field |-> <<>>,
                  records |-> Append(r.records, SaveField)]
            ELSE [r EXCEPT !.state = "EAT_CRNL", !.fields = SaveField, !.field = <<>>]
        InField ==
            IF IsNewline(c) \/ c = EOL THEN EndOfLine
            ELSE IF c = EscapeChar THEN [r EXCEPT !.state = "ESCAPED_CHAR"]
            ELSE IF c = Delimiter
                 THEN [r EXCEPT !.state = "START_FIELD", !.fields = SaveField, !.field = <<>>]
            ELSE [r EXCEPT !.state = "IN_FIELD", !.field = Append(r.field, c)]
    IN  CASE r.state = "START_RECORD" ->
                IF c = EOL THEN [r EXCEPT !.records = Append(r.records, <<>>)]
                ELSE IF IsNewline(c) THEN [r EXCEPT !.state = "EAT_CRNL"]
                ELSE InField
          [] r.state = "START_FIELD" -> InField
          [] r.state = "ESCAPED_CHAR" ->
                IF IsNewline(c)
                THEN [r EXCEPT !.state = "AFTER_ESCAPED_CRNL", !.field = Append(r.field, c)]
                ELSE [r EXCEPT !.state = "IN_FIELD",
                               !.field = Append(r.field, IF c = EOL THEN LF ELSE c)]
          [] r.state = "AFTER_ESCAPED_CRNL" -> IF c = EOL THEN r ELSE InField
          [] r.state = "IN_FIELD" -> InField
          [] r.state = "EAT_CRNL" ->
                \* a record ends with the end-of-line call behind its newline; no
                \* other character follows a newline in a line read with
                \* universal newlines (the reader would raise csv.Error on one)
                IF c = EOL
                THEN [state |-> "START_RECORD", fields |-> <<>>, field |-> <<>>,
                      records |-> Append(r.records, r.fields)]
                ELSE r

RECURSIVE ProcessRange(_, _, _, _)
\* The reader r after the characters chars[lo..hi], by halves (the test on the
\* left half has it computed before the right half is entered; no reader
\* state is the empty string).
ProcessRange(r, chars, lo, hi) ==
    IF lo > hi THEN r
    ELSE IF lo = hi THEN ProcessChar(r, chars[lo])
    ELSE LET mid == (lo + hi) \div 2
             left == ProcessRange(r, chars, lo, mid)
         IN  IF left.state = "" THEN left ELSE ProcessRange(left, chars, mid + 1, hi)

\* Reader_iternext at the end of the input: a record under way is returned
\* when the field being read is not empty.
EndOfInput(r) ==
    IF r.state # "START_RECORD" /\ r.field # <<>>
    THEN Append(r.records, Append(r.fields, r.field))
    ELSE r.records

\* list(csv.reader(f)) for the file's text.
ReadRecords(text) ==
    LET chars == LinesWithEOL(UniversalNewlines(text))
    IN  EndOfInput(ProcessRange(ReaderStart, chars, 1, Len(chars)))

RECURSIVE WriteRows(_)
\* The text a writer leaves after writing the records in turn.
WriteRows(rows) == IF rows = <<>> THEN <<>> ELSE WriteRow(Head(rows)) \o WriteRows(Tail(rows))

(***************************************************************************)
(* remove_systematic_errors: the repair of one row.                        *)
(***************************************************************************)
\* sub occurs in s at position i (from 1).
StartsAt(s, sub, i) ==
    /\ i + Len(sub) - 1 <= Len(s)
    /\ SubSeq(s, i, i + Len(sub) - 1) = sub

\* str.find(sub): the lowest index (from 0) where sub occurs, or -1.
Find(s, sub) ==
    LET at == {i \in 1..Len(s) : StartsAt(s, sub, i)}
    IN  IF at = {} THEN -1 ELSE (CHOOSE i \in at : \A j \in at : i <= j) - 1

\* A slip in the replacement: only the first occurrence (replace(old, new, 1)).
ReplaceFirst(s, old, new) ==
    LET p == Find(s, old)
    IN  IF p = -1 THEN s
        ELSE SubSeq(s, 1, p) \o new \o SubSeq(s, p + Len(old) + 1, Len(s))

RECURSIVE Replace(_, _, _)
\* str.replace(old, new): the occurrences of old, found from the left and not
\* overlapping, each replaced by new.
Replace(s, old, new) ==
    LET p == Find(s, old)
    IN  IF p = -1 THEN s
        ELSE SubSeq(s, 1, p) \o new \o Replace(SubSeq(s, p + Len(old) + 1, Len(s)), old, new)

DigitChars == <<"0", "1", "2", "3", "4", "5", "6", "7", "8", "9">>

RECURSIVE Format(_)
\* '{}'.format(i) of a natural number: its decimal digits.
Format(i) ==
    IF i < 10 THEN <<DigitChars[i + 1]>>
    ELSE Format(i \div 10) \o <<DigitChars[(i % 10) + 1]>>

\* '<x id = "{}" />'.format(i)
Corrupted(i) ==
    <<"<", "x", " ", "i", "d", " ", "=", " ", "\"">> \o Format(i) \o <<"\"", " ", "/", ">">>

\* '<x id="{}"/>'.format(i)
Canonical(i) ==
    <<"<", "x", " ", "i", "d", "=", "\"">> \o Format(i) \o <<"\"", "/", ">">>

RECURSIVE RepairFrom(_, _)
\* The while loop from counter i on.
RepairFrom(target, i) ==
    IF Find(target, Corrupted(i)) # -1
    THEN RepairFrom(Replace(target, Corrupted(i), Canonical(i)), i + 1)
    ELSE target

\* A slip in the test of the row's length: any row with a field at index 3.
RepairRowAnyLength(row) ==
    IF Len(row) >= 4 THEN SetAt(row, 3, RepairFrom(At(row, 3), 1)) ELSE row

\* The body of the for loop: the row handed to writer.writerow.
RepairRow(row) ==
    IF Len(row) = 7 THEN SetAt(row, 3, RepairFrom(At(row, 3), 1)) ELSE row

(***************************************************************************)
(* aggregate_xmls: the documents.                                          *)
(***************************************************************************)
\* table.findall("ss:Row", ns)[8:]
HeaderRows == 8

\* for cell in row: for data in cell: row_items.append(data.text)
\* A row is the sequence of its cells, a cell the sequence of the texts of its
\* children (None for a child without text).
RowItems(row) == Cat(row)

\* A slip in the slice: rows[7:], the last metadata row taken for data.
DataRowsOffByOne(rows) == SubSeq(rows, HeaderRows, Len(rows))

\* rows[8:] of a Python list.
DataRowsOf(rows) == SubSeq(rows, HeaderRows + 1, Len(rows))

(***************************************************************************)
(* State.                                                                  *)
(***************************************************************************)
VARIABLES
    row_arg,           \* pretranslate_row: the row it was called with
    row_items,         \* pretranslate_row: the list it works on and returns
    pcP,               \* pretranslate_row: "call", "returned" or "raised"
    paths,             \* aggregate_xmls: the documents, in the order given
    pidx,              \* aggregate_xmls: the place in paths of the document at hand
    ridx,              \* aggregate_xmls: the place in table.findall(...)[8:] of the row at hand
    agg_rows,          \* aggregate_xmls: the records handed to writer.writerow
    pcA,               \* aggregate_xmls: "call", "path", "rows", "done", "raised"
    intermediate_csv,  \* the text of intermediate.csv (NoFile: there is none)
    pending,           \* remove_systematic_errors: the records the reader has yet to return
    read_rows,         \* remove_systematic_errors: the records read, as read
    out_rows,          \* remove_systematic_errors: the records handed to writer.writerow
    final_csv,         \* the text of final.csv (NoFile: there is none)
    pcR,               \* remove_systematic_errors: "call", "loop", "done", "raised"
    src_tree,          \* move_xml_files: the files under source, each with its directory
    src_root,          \* move_xml_files: "dir" while the source root exists, else "absent"
    dst_dir,           \* move_xml_files: the files directly under target
    located,           \* move_xml_files: what find_xml_files(source) returned
    to_move,           \* move_xml_files: the files of the list not yet reached
    pcM,               \* move_xml_files: "call", "moving", "mkdir", "done", "raised"
    tree0,             \* the files under source when the run began
    csv0               \* the text of intermediate.csv when the run began

varsPre == <<row_arg, row_items, pcP>>
varsAgg == <<paths, pidx, ridx, agg_rows, pcA>>
varsRep == <<pending, read_rows, out_rows, final_csv, pcR>>
varsMove == <<src_tree, src_root, dst_dir, located, to_move, pcM, tree0, csv0>>
vars == <<varsPre, varsAgg, intermediate_csv, varsRep, varsMove>>

\* A file that does not exist.
NoFile == <<"<no file>">>

IdlePre == row_arg = <<>> /\ row_items = <<>> /\ pcP = "idle"
IdleAgg == paths = <<>> /\ pidx = 0 /\ ridx = 0 /\ agg_rows = <<>> /\ pcA = "idle"
IdleRep ==
    /\ pending = <<>> /\ read_rows = <<>> /\ out_rows = <<>>
    /\ final_csv = NoFile /\ pcR = "idle"
IdleMove ==
    /\ src_tree = {} /\ src_root = "dir" /\ dst_dir = {} /\ located = {} /\ to_move = {}
    /\ pcM = "idle" /\ tree0 = {} /\ csv0 = NoFile

(***************************************************************************)
(* The rows pretranslate_row is called with.                               *)
(***************************************************************************)
\* Entries of a Glossary field: 'a = x', 'A = y', 'aB=xY', ' AB = y y',
\* '=x', and the malformed 'a', 'a=x=y' and '' (as after a trailing ';').
GlossaryEntries ==
    { <<"a", " ", "=", " ", "x">>,
      <<"A", " ", "=", " ", "y">>,
      <<"a", "B", "=", "x", "Y">>,
      <<" ", "A", "B", " ", "=", " ", "y", " ", "y">>,
      <<"=", "x">>,
      <<"a">>,
      <<"a", "=", "x", "=", "y">>,
      <<>> }

\* Words of a Source field: 'a', 'A', 'Ab', 'AB', 'a,' and the empty word
\* two consecutive spaces leave.
SourceWords == { <<"a">>, <<"A">>, <<"A", "b">>, <<"A", "B">>, <<"a", ",">>, <<>> }

SeqsUpTo(S, n) == UNION {[1..k -> S] : k \in 1..n}

GlossaryFields ==
    {None} \cup {Join(es, <<";">>) : es \in SeqsUpTo(GlossaryEntries, MaxEntries)}

SourceFields ==
    {None} \cup {Join(ws, <<" ">>) : ws \in SeqsUpTo(SourceWords, MaxTokens)}

\* ID | Resource | Source | Target | Context | Glossary | Notes
InputRows ==
    {<<<<"1">>, <<"r">>, s, None, None, g, None>> : s \in SourceFields, g \in GlossaryFields}

InitPre ==
    /\ row_arg \in InputRows
    /\ row_items = row_arg
    /\ pcP = "call"
    /\ IdleAgg /\ IdleRep /\ IdleMove /\ intermediate_csv = NoFile

\* The branch of a null Glossary.
PretranslateNoGlossary ==
    /\ pcP = "call"
    /\ ~PretranslateRaises(row_items)
    /\ At(row_items, 5) = None
    /\ row_items' = pretranslate_row(row_items)
    /\ pcP' = "returned"
    /\ UNCHANGED <<row_arg, varsAgg, intermediate_csv, varsRep, varsMove>>

\* The branch that builds the glossary and substitutes.
PretranslateGlossary ==
    /\ pcP = "call"
    /\ ~PretranslateRaises(row_items)
    /\ At(row_items, 5) # None
    /\ row_items' = pretranslate_row(row_items)
    /\ pcP' = "returned"
    /\ UNCHANGED <<row_arg, varsAgg, intermediate_csv, varsRep, varsMove>>

\* The call that raises leaves the list as it was.
PretranslateError ==
    /\ pcP = "call"
    /\ PretranslateRaises(row_items)
    /\ pcP' = "raised"
    /\ UNCHANGED <<row_arg, row_items, varsAgg, intermediate_csv, varsRep, varsMove>>

NextPre == PretranslateNoGlossary \/ PretranslateGlossary \/ PretranslateError

SpecPre == InitPre /\ [][NextPre]_vars

(***************************************************************************)
(* Properties of pretranslate_row.                                         *)
(***************************************************************************)
HasText(row, i) == At(row, i) # None

\* The number of '=' in a glossary entry.
CountEq(entry) == Cardinality({i \in 1..Len(entry) : entry[i] = "="})

\* The entries of a Glossary field, and the well-formed ones among them.
EntriesOf(text) == Split(text, ";")
WellFormedEntry(entry) == CountEq(entry) = 1
TermOf(entry) == Strip(Split(entry, "=")[1])
TranslationOf(entry) == Strip(Split(entry, "=")[2])

\* Target as C1 describes it: Source itself under a null Glossary; otherwise,
\* with t the texts free of spaces whose single-space join is Source, the
\* single-space join of the texts u, u[i] the glossary's value for t[i] when
\* t[i] is one of its keys and t[i] itself when it is not.
C1_TargetAsClaimed(in, out) ==
    IF ~HasText(in, 5) THEN At(out, 3) = At(in, 2)
    ELSE LET t == Split(At(in, 2), " ")
             g == BuildGlossary(At(in, 5))
         IN  /\ Join(t, <<" ">>) = At(in, 2)
             /\ \A i \in 1..Len(t) : \A j \in 1..Len(t[i]) : t[i][j] # " "
             /\ \E u \in [1..Len(t) -> {t[i] : i \in 1..Len(t)} \cup {g[k] : k \in DOMAIN g}] :
                    /\ \A i \in 1..Len(t) :
                           u[i] = IF t[i] \in DOMAIN g THEN g[t[i]] ELSE t[i]
                    /\ At(out, 3) = Join(u, <<" ">>)

C1_Frame(in, out) ==
    /\ Len(out) = Len(in)
    /\ \A i \in {0, 1, 2, 4, 5, 6} : At(out, i) = At(in, i)

\* C1 as claimed: for every 7-field row the call sets Target to Source under a
\* null Glossary and to the token-wise glossary substitution of Source
\* otherwise, and returns every other field unchanged.
C1_AsClaimed ==
    pcP # "call" =>
        /\ pcP = "returned"
        /\ C1_TargetAsClaimed(row_arg, row_items)
        /\ C1_Frame(row_arg, row_items)

\* C1 where it holds: the same for every 7-field row whose Source is text or
\* whose Glossary is null; the call with a null Source and a text Glossary
\* raises and leaves the row as it was.
C1_Pretranslate ==
    /\ (pcP # "call" /\ (HasText(row_arg, 2) \/ ~HasText(row_arg, 5))) =>
           /\ pcP = "returned"
           /\ C1_TargetAsClaimed(row_arg, row_items)
           /\ C1_Frame(row_arg, row_items)
    /\ pcP = "raised" =>
           /\ ~HasText(row_arg, 2) /\ HasText(row_arg, 5)
           /\ row_items = row_arg

\* A returned call that replaced one token by its translation and kept
\* another, which is no key, as it was.
C1_Witness ==
    /\ pcP = "returned"
    /\ HasText(row_arg, 5)
    /\ LET t == Split(At(row_arg, 2), " ")
           g == BuildGlossary(At(row_arg, 5))
       IN  /\ \E i \in 1..Len(t) : t[i] \in DOMAIN g /\ g[t[i]] # t[i]
           /\ \E i \in 1..Len(t) : t[i] \notin DOMAIN g
    /\ At(row_items, 3) # At(row_arg, 2)

\* A call on a 7-field row with a null Source and a Glossary with a well-formed
\* entry has raised: Target is not set.
C1_WitnessRaised ==
    /\ pcP = "raised"
    /\ Len(row_arg) = 7
    /\ ~HasText(row_arg, 2) /\ HasText(row_arg, 5)
    /\ \E i \in 1..Len(EntriesOf(At(row_arg, 5))) : WellFormedEntry(EntriesOf(At(row_arg, 5))[i])
    /\ row_items = row_arg

\* A key is assigned again by a later entry of the same field.
AssignedLater(entries, i, key) ==
    \E j \in (i + 1)..Len(entries) :
        /\ WellFormedEntry(entries[j])
        /\ key \in {TermOf(entries[j]), Title(TermOf(entries[j]))}

\* C2 as claimed: for every well-formed entry, the glossary maps the literal
\* term to the literal translation and the title-cased term to the title-cased
\* translation, and a Source token equal to the literal term is replaced in
\* Target by the literal translation.
C2_AsClaimed ==
    (pcP = "returned" /\ HasText(row_arg, 5)) =>
        LET es == EntriesOf(At(row_arg, 5))
            g == BuildGlossary(At(row_arg, 5))
            t == Split(At(row_arg, 2), " ")
            out == Split(At(row_items, 3), " ")
        IN  \A i \in 1..Len(es) :
                WellFormedEntry(es[i]) =>
                    /\ TermOf(es[i]) \in DOMAIN g
                    /\ g[TermOf(es[i])] = TranslationOf(es[i])
                    /\ Title(TermOf(es[i])) \in DOMAIN g
                    /\ g[Title(TermOf(es[i]))] = Title(TranslationOf(es[i]))
                    /\ (\A k \in DOMAIN g : \A n \in 1..Len(g[k]) : g[k][n] # " ") =>
                           \A n \in 1..Len(t) :
                               t[n] = TermOf(es[i]) => out[n] = TranslationOf(es[i])

\* C2 as amended: every well-formed entry assigns the literal term the literal
\* translation and then the title-cased term the title-cased translation, a
\* later assignment to a key replacing an earlier one.  So the title-cased
\* term maps to the title-cased translation, and a literal term that is not
\* its own title-cased form maps to the literal translation, unless a later
\* entry of the field assigns that key again; a term that is already
\* title-cased maps to the title-cased translation.  A Source token equal to a
\* key is replaced in Target by the value the key ends with.
C2_Glossary ==
    (pcP = "returned" /\ HasText(row_arg, 5)) =>
        LET es == EntriesOf(At(row_arg, 5))
            g == BuildGlossary(At(row_arg, 5))
            t == Split(At(row_arg, 2), " ")
        IN  /\ \A i \in 1..Len(es) :
                WellFormedEntry(es[i]) =>
                    LET term == TermOf(es[i])
                        tr == TranslationOf(es[i])
                    IN  /\ {term, Title(term)} \subseteq DOMAIN g
                        /\ ~AssignedLater(es, i, Title(term)) => g[Title(term)] = Title(tr)
                        /\ (term # Title(term) /\ ~AssignedLater(es, i, term)) =>
                               g[term] = tr
            /\ At(row_items, 3) =
                   Join([n \in 1..Len(t) |-> IF t[n] \in DOMAIN g THEN g[t[n]] ELSE t[n]],
                        <<" ">>)

\* A returned call whose Glossary holds an entry with a term that is already
\* title-cased and a translation that is not, the term being a Source token
\* that Target shows title-cased.
C2_Witness ==
    /\ pcP = "returned"
    /\ HasText(row_arg, 5)
    /\ LET es == EntriesOf(At(row_arg, 5))
           t == Split(At(row_arg, 2), " ")
       IN  \E i \in 1..Len(es) :
               /\ WellFormedEntry(es[i])
               /\ TermOf(es[i]) = Title(TermOf(es[i]))
               /\ TranslationOf(es[i]) # Title(TranslationOf(es[i]))
               /\ Len(es) = 1
               /\ t = <<TermOf(es[i])>>
               /\ At(row_items, 3) = Title(TranslationOf(es[i]))

\* C9: an entry of the Glossary field without exactly one '=' adds no key and
\* raises nothing, and the well-formed entries around it are applied: the
\* glossary is the one its well-formed entries alone build, and Target the
\* substitution of Source under it.
C9_MalformedSkipped ==
    (pcP # "call" /\ HasText(row_arg, 5) /\ HasText(row_arg, 2)) =>
        LET es == EntriesOf(At(row_arg, 5))
            well == SelectSeq(es, WellFormedEntry)
            g == BuildFrom(EmptyDict, well)
        IN  /\ pcP = "returned"
            /\ BuildGlossary(At(row_arg, 5)) = g
            /\ DOMAIN g = UNION {{TermOf(well[i]), Title(TermOf(well[i]))} : i \in 1..Len(well)}
            /\ At(row_items, 3) = Substitute(g, At(row_arg, 2))

\* A returned call whose Glossary has a malformed entry before a well-formed
\* one that was applied to a Source token.
C9_Witness ==
    /\ pcP = "returned"
    /\ HasText(row_arg, 5)
    /\ LET es == EntriesOf(At(row_arg, 5))
       IN  /\ Len(es) = 2
           /\ CountEq(es[1]) = 2
           /\ WellFormedEntry(es[2])
           /\ TermOf(es[2]) \in {w : w \in SourceWords}
           /\ Split(At(row_arg, 2), " ")[1] = TermOf(es[2])
    /\ At(row_items, 3) # At(row_arg, 2)

(***************************************************************************)
(* aggregate_xmls                                                          *)
(***************************************************************************)
\* A metadata row of a document: one cell, one text.
MetaRow == << <<<<"m">>>> >>

\* A data row of seven cells, each with one child.
DataRow(id, source, context, glossary) ==
    << <<id>>, <<<<"r">>>>, <<source>>, <<None>>, <<context>>, <<glossary>>, <<None>> >>

\* Source 'a A,' under the Glossary 'a = x', the Context 'c|d\'.
RowGlossary ==
    DataRow(<<"1">>, <<"a", " ", "A", ",">>, <<"c", "|", "d", "\\">>, <<"a", " ", "=", " ", "x">>)
\* No Glossary, a line break in Source (&#10; in the document).
RowNewline == DataRow(<<"2">>, <<"a", "\n", "b">>, None, None)
\* A carriage return in Context (&#13; in the document).
RowCarriageReturn == DataRow(<<"3">>, <<"a">>, <<"c", "\r", "d">>, None)
\* A Source that holds a corrupted placeholder already.
RowPlaceholder == DataRow(<<"4">>, Corrupted(1) \o <<" ", "a">>, None, <<"a", "=", "x">>)
\* An empty Source cell beside a Glossary: pretranslate_row raises.
RowNoSource == DataRow(<<"5">>, None, None, <<"a", " ", "=", " ", "x">>)

Header(n) == [i \in 1..n |-> MetaRow]
XmlName(stem) == stem \o <<".", "x", "m", "l">>

\* The documents of the model: fewer rows than the header has, the header
\* alone, and the header followed by data rows.
Documents ==
    { [name |-> XmlName(<<"s">>), rows |-> Header(HeaderRows - 1)],
      [name |-> XmlName(<<"h">>), rows |-> Header(HeaderRows)],
      [name |-> XmlName(<<"a">>), rows |-> Header(HeaderRows) \o <<RowGlossary, RowNewline>>],
      [name |-> XmlName(<<"b">>), rows |-> Header(HeaderRows) \o <<RowNewline>>],
      [name |-> XmlName(<<"c">>), rows |-> Header(HeaderRows) \o <<RowCarriageReturn>>],
      [name |-> XmlName(<<"p">>), rows |-> Header(HeaderRows) \o <<RowPlaceholder>>],
      [name |-> XmlName(<<"e">>), rows |-> Header(HeaderRows) \o <<RowGlossary, RowNoSource, RowNewline>>] }

\* Lists of distinct documents.
PathLists ==
    {ps \in SeqsUpTo(Documents, MaxDocs) : \A i, j \in 1..Len(ps) : i # j => ps[i] # ps[j]}

InitAgg ==
    /\ paths \in PathLists
    /\ pidx = 0 /\ ridx = 0 /\ agg_rows = <<>>
    /\ pcA = "call"
    /\ intermediate_csv = NoFile
    /\ IdlePre /\ IdleRep /\ IdleMove

\* open(target, mode='w') and csv.writer(...): the file is there and empty.
AggOpen ==
    /\ pcA = "call"
    /\ intermediate_csv' = <<>>
    /\ agg_rows' = <<>>
    /\ pidx' = 1
    /\ pcA' = "path"
    /\ UNCHANGED <<paths, ridx, varsPre, varsRep, varsMove>>

\* writer.writerow([path.parts[-1]]), then the document parsed and its rows
\* behind the first 8 taken.
AggMarker ==
    /\ pcA = "path"
    /\ pidx <= Len(paths)
    /\ LET record == <<paths[pidx].name>>
       IN  /\ agg_rows' = Append(agg_rows, record)
           /\ intermediate_csv' = intermediate_csv \o WriteRow(record)
    /\ ridx' = 1
    /\ pcA' = "rows"
    /\ UNCHANGED <<paths, pidx, varsPre, varsRep, varsMove>>

\* writer.writerow(pretranslate_row(row_items)) for the row at hand.
AggRow ==
    /\ pcA = "rows"
    /\ ridx <= Len(DataRowsOf(paths[pidx].rows))
    /\ LET items == RowItems(DataRowsOf(paths[pidx].rows)[ridx])
       IN  /\ ~PretranslateRaises(items)
           /\ ~WriteRaises(pretranslate_row(items))
           /\ agg_rows' = Append(agg_rows, pretranslate_row(items))
           /\ intermediate_csv' = intermediate_csv \o WriteRow(pretranslate_row(items))
    /\ ridx' = ridx + 1
    /\ UNCHANGED <<paths, pidx, pcA, varsPre, varsRep, varsMove>>

\* pretranslate_row or writer.writerow raises: the with statement closes the
\* file with what was written.
AggRowRaises ==
    /\ pcA = "rows"
    /\ ridx <= Len(DataRowsOf(paths[pidx].rows))
    /\ LET items == RowItems(DataRowsOf(paths[pidx].rows)[ridx])
       IN  PretranslateRaises(items) \/ WriteRaises(pretranslate_row(items))
    /\ pcA' = "raised"
    /\ UNCHANGED <<paths, pidx, ridx, agg_rows, intermediate_csv, varsPre, varsRep, varsMove>>

\* The rows of the document are done: the next path.
AggNextPath ==
    /\ pcA = "rows"
    /\ ridx > Len(DataRowsOf(paths[pidx].rows))
    /\ pidx' = pidx + 1
    /\ pcA' = "path"
    /\ UNCHANGED <<paths, ridx, agg_rows, intermediate_csv, varsPre, varsRep, varsMove>>

\* The paths are done: the file is closed.
AggReturn ==
    /\ pcA = "path"
    /\ pidx > Len(paths)
    /\ pcA' = "done"
    /\ UNCHANGED <<paths, pidx, ridx, agg_rows, intermediate_csv, varsPre, varsRep, varsMove>>

NextAgg == AggOpen \/ AggMarker \/ AggRow \/ AggRowRaises \/ AggNextPath \/ AggReturn

(***************************************************************************)
(* remove_systematic_errors                                                *)
(***************************************************************************)
\* open(target, 'w'), open(source, 'r') and the writer and reader made.
RepOpen ==
    /\ pcR = "call"
    /\ intermediate_csv # NoFile
    /\ final_csv' = <<>>
    /\ pending' = ReadRecords(intermediate_csv)
    /\ read_rows' = <<>>
    /\ out_rows' = <<>>
    /\ pcR' = "loop"
    /\ UNCHANGED <<intermediate_csv, varsPre, varsAgg, varsMove>>

\* open(source, 'r') raises on a missing file, the target opened before it.
RepOpenRaises ==
    /\ pcR = "call"
    /\ intermediate_csv = NoFile
    /\ final_csv' = <<>>
    /\ pcR' = "raised"
    /\ UNCHANGED <<intermediate_csv, pending, read_rows, out_rows, varsPre, varsAgg, varsMove>>

\* A row of 7 fields: the while loop on row[3], then writer.writerow(row).
RepRepair ==
    /\ pcR = "loop"
    /\ pending # <<>>
    /\ Len(Head(pending)) = 7
    /\ read_rows' = Append(read_rows, Head(pending))
    /\ out_rows' = Append(out_rows, RepairRow(Head(pending)))
    /\ final_csv' = final_csv \o WriteRow(RepairRow(Head(pending)))
    /\ pending' = Tail(pending)
    /\ UNCHANGED <<pcR, intermediate_csv, varsPre, varsAgg, varsMove>>

\* Any other row: writer.writerow(row).
RepPassThrough ==
    /\ pcR = "loop"
    /\ pending # <<>>
    /\ Len(Head(pending)) # 7
    /\ ~WriteRaises(Head(pending))
    /\ read_rows' = Append(read_rows, Head(pending))
    /\ out_rows' = Append(out_rows, RepairRow(Head(pending)))
    /\ final_csv' = final_csv \o WriteRow(RepairRow(Head(pending)))
    /\ pending' = Tail(pending)
    /\ UNCHANGED <<pcR, intermediate_csv, varsPre, varsAgg, varsMove>>

\* Reading, decoding or writing raises in the loop: the with statements close
\* both files and the exception leaves the function.
RepRaises ==
    /\ pcR = "loop"
    /\ pcR' = "raised"
    /\ UNCHANGED <<pending, read_rows, out_rows, final_csv, intermediate_csv, varsPre, varsAgg, varsMove>>

\* The reader is exhausted: the files are closed.
RepReturn ==
    /\ pcR = "loop"
    /\ pending = <<>>
    /\ pcR' = "done"
    /\ UNCHANGED <<pending, read_rows, out_rows, final_csv, intermediate_csv, varsPre, varsAgg, varsMove>>

NextRep == RepOpen \/ RepOpenRaises \/ RepRepair \/ RepPassThrough \/ RepRaises \/ RepReturn

\* Phase 2 is run on the table phase 1 has written.
RunRepairOnAggregate ==
    /\ pcA = "done"
    /\ pcR = "idle"
    /\ pcR' = "call"
    /\ UNCHANGED <<pending, read_rows, out_rows, final_csv, intermediate_csv, varsPre, varsAgg, varsMove>>

NextTable ==
    \/ NextAgg
    \/ RunRepairOnAggregate
    \/ RepOpen \/ RepRepair \/ RepPassThrough \/ RepRaises \/ RepReturn

\* aggregate_xmls on a list of documents, then remove_systematic_errors on
\* the table it wrote.
SpecTable == InitAgg /\ [][NextTable]_vars

(***************************************************************************)
(* The tables remove_systematic_errors is run on alone.                    *)
(***************************************************************************)
\* Pieces of a Target: 'a', the corrupted placeholders 1 to 3, the canonical
\* placeholder 1, a '|', and a corrupted placeholder short of its last
\* character.
TargetPieces ==
    { <<"a">>, Corrupted(1), Corrupted(2), Corrupted(3), Canonical(1), <<Delimiter>>,
      SubSeq(Corrupted(1), 1, Len(Corrupted(1)) - 1) }

Targets == {<<>>} \cup {Cat(ps) : ps \in SeqsUpTo(TargetPieces, MaxPieces)}

\* A row of 7 fields around a Target, a corrupted placeholder in its Source
\* and in its Context.
TableRow(target) ==
    << <<"1">>, <<"r">>, Corrupted(1), target, Corrupted(1) \o <<"c">>, <<>>, <<>> >>

\* Markers, one of them holding a corrupted placeholder.
Markers == { <<XmlName(<<"a">>)>>, <<Corrupted(1)>> }

\* A record of 8 fields, a corrupted placeholder at index 3.
LongRecord ==
    << <<"1">>, <<"r">>, <<"s">>, Corrupted(1), <<"c">>, <<>>, <<>>, <<"x">> >>

RepairTables ==
    { <<m, TableRow(t)>> \o tail :
          m \in Markers, t \in Targets, tail \in {<<>>, <<LongRecord>>} }

InitRep ==
    /\ intermediate_csv \in {WriteRows(table) : table \in RepairTables}
    /\ pending = <<>> /\ read_rows = <<>> /\ out_rows = <<>>
    /\ final_csv = NoFile
    /\ pcR = "call"
    /\ IdlePre /\ IdleAgg /\ IdleMove

NextRepair == RepOpen \/ RepRepair \/ RepPassThrough \/ RepRaises \/ RepReturn

\* remove_systematic_errors on a table.
SpecRep == InitRep /\ [][NextRepair]_vars

(***************************************************************************)
(* find_xml_files and move_xml_files.  The source tree holds regular files *)
(* in directories; the target is a directory outside it that exists.       *)
(***************************************************************************)
EndsWith(name, suffix) ==
    Len(name) >= Len(suffix) /\ SubSeq(name, Len(name) - Len(suffix) + 1, Len(name)) = suffix

\* The pattern '*.xml' of root.glob('**/*.xml').
IsXml(name) == EndsWith(name, <<".", "x", "m", "l">>)

\* find_xml_files(root): the files of the tree, at any depth, that match.
find_xml_files(tree) == {f \in tree : IsXml(f.name)}

CsvName ==
    << "i", "n", "t", "e", "r", "m", "e", "d", "i", "a", "t", "e", ".", "c", "s", "v" >>
TxtName == <<"n", ".", "t", "x", "t">>

\* The file shutil.move leaves under the target for the file f of the source.
Moved(f) == [name |-> f.name, from |-> f.dir]
\* A file that was under the target before the run.
Old(name) == [name |-> name, from |-> <<"<target>">>]

\* The directories of the source tree: the root <<>> and a chain under it.
Directories == {[i \in 1..n |-> "d"] : n \in 0..MaxDepth}

SourceFiles ==
    {[dir |-> d, name |-> n] : d \in Directories, n \in {XmlName(<<"a">>), XmlName(<<"b">>)}}
        \cup {[dir |-> <<>>, name |-> TxtName]}

InitMove ==
    /\ src_tree \in SUBSET SourceFiles
    /\ src_root = "dir"
    /\ dst_dir \in {{}, {Old(XmlName(<<"b">>))}}
    /\ located = {} /\ to_move = {}
    /\ pcM = "call"
    /\ tree0 = src_tree
    /\ csv0 = NoFile
    /\ intermediate_csv = NoFile
    /\ IdlePre /\ IdleAgg /\ IdleRep

\* files = find_xml_files(source).  The list has the order the file system
\* gives; the loop below takes its files in any order.
MoveFind ==
    /\ pcM = "call"
    /\ located' = find_xml_files(src_tree)
    /\ to_move' = find_xml_files(src_tree)
    /\ pcM' = "moving"
    /\ UNCHANGED <<src_tree, src_root, dst_dir, tree0, csv0, intermediate_csv,
                   varsPre, varsAgg, varsRep>>

\* shutil.move(str(file), str(target)) of the next file: renamed to
\* target/basename.
MoveFile ==
    /\ pcM = "moving"
    /\ \E f \in to_move :
           /\ \A g \in dst_dir : g.name # f.name
           /\ src_tree' = src_tree \ {f}
           /\ dst_dir' = dst_dir \cup {Moved(f)}
           /\ to_move' = to_move \ {f}
    /\ UNCHANGED <<src_root, located, pcM, tree0, csv0, intermediate_csv,
                   varsPre, varsAgg, varsRep>>

\* A slip: a file whose basename is taken under the target is passed over.
MoveCollisionSkipped ==
    /\ pcM = "moving"
    /\ \E f \in to_move :
           /\ \E g \in dst_dir : g.name = f.name
           /\ to_move' = to_move \ {f}
    /\ UNCHANGED <<src_tree, src_root, dst_dir, located, pcM, tree0, csv0,
                   intermediate_csv, varsPre, varsAgg, varsRep>>

\* shutil.move raises shutil.Error: target/basename exists already.
MoveCollision ==
    /\ pcM = "moving"
    /\ \E f \in to_move : \E g \in dst_dir : g.name = f.name
    /\ pcM' = "raised"
    /\ UNCHANGED <<src_tree, src_root, dst_dir, located, to_move, tree0, csv0,
                   intermediate_csv, varsPre, varsAgg, varsRep>>

\* shutil.move raises OSError on the next file, which stays where it is.
MoveIOError ==
    /\ pcM = "moving"
    /\ to_move # {}
    /\ pcM' = "raised"
    /\ UNCHANGED <<src_tree, src_root, dst_dir, located, to_move, tree0, csv0,
                   intermediate_csv, varsPre, varsAgg, varsRep>>

\* shutil.rmtree(str(source)): the root and all that is under it, the table
\* file among it.
MoveRmtree ==
    /\ pcM = "moving"
    /\ to_move = {}
    /\ src_tree' = {}
    /\ src_root' = "absent"
    /\ intermediate_csv' =
           IF \E f \in src_tree : f.name = CsvName THEN NoFile ELSE intermediate_csv
    /\ pcM' = "mkdir"
    /\ UNCHANGED <<dst_dir, located, to_move, tree0, csv0, varsPre, varsAgg, varsRep>>

\* A slip: the source root is not made again.
MoveMkdirForgotten ==
    /\ pcM = "mkdir"
    /\ pcM' = "done"
    /\ UNCHANGED <<src_tree, src_root, dst_dir, located, to_move, tree0, csv0,
                   intermediate_csv, varsPre, varsAgg, varsRep>>

\* source.mkdir()
MoveMkdir ==
    /\ pcM = "mkdir"
    /\ src_root' = "dir"
    /\ pcM' = "done"
    /\ UNCHANGED <<src_tree, dst_dir, located, to_move, tree0, csv0, intermediate_csv,
                   varsPre, varsAgg, varsRep>>

NextMove == MoveFind \/ MoveFile \/ MoveCollision \/ MoveIOError \/ MoveRmtree \/ MoveMkdir

\* move_xml_files on a source tree.
SpecMove == InitMove /\ [][NextMove]_vars

(***************************************************************************)
(* Phase 2 of the script: remove_systematic_errors on intermediate.csv,    *)
(* then move_xml_files(intermediate, final).                               *)
(***************************************************************************)
\* The flat directory phase 1 leaves: .xml files and the table.
IntermediateFiles ==
    {[dir |-> <<>>, name |-> n] : n \in {XmlName(<<"a">>), XmlName(<<"b">>), CsvName}}

Phase2Tables ==
    { <<<<XmlName(<<"a">>)>>, TableRow(Corrupted(1) \o <<"a">> \o Corrupted(2))>>,
      <<<<XmlName(<<"b">>)>>, TableRow(<<"a">>), LongRecord>> }

InitPhase2 ==
    /\ src_tree \in SUBSET IntermediateFiles
    /\ src_root = "dir"
    /\ dst_dir \in {{}, {Old(XmlName(<<"b">>))}}
    /\ located = {} /\ to_move = {}
    /\ pcM = "idle"
    /\ tree0 = src_tree
    /\ intermediate_csv \in
           IF \E f \in src_tree : f.name = CsvName
           THEN {WriteRows(table) : table \in Phase2Tables}
           ELSE {NoFile}
    /\ csv0 = intermediate_csv
    /\ pending = <<>> /\ read_rows = <<>> /\ out_rows = <<>>
    /\ final_csv = NoFile
    /\ pcR = "call"
    /\ IdlePre /\ IdleAgg

\* A slip: the tree is flattened whether the repair returned or raised.
RunMoveRegardless ==
    /\ pcR \in {"done", "raised"}
    /\ pcM = "idle"
    /\ pcM' = "call"
    /\ UNCHANGED <<src_tree, src_root, dst_dir, located, to_move, tree0, csv0,
                   intermediate_csv, varsPre, varsAgg, varsRep>>

\* move_xml_files(intermediate, final) is called when
\* remove_systematic_errors has returned; an exception ends the script.
RunMove ==
    /\ pcR = "done"
    /\ pcM = "idle"
    /\ pcM' = "call"
    /\ UNCHANGED <<src_tree, src_root, dst_dir, located, to_move, tree0, csv0,
                   intermediate_csv, varsPre, varsAgg, varsRep>>

NextPhase2 == NextRep \/ RunMove \/ NextMove

SpecPhase2 == InitPhase2 /\ [][NextPhase2]_vars

(***************************************************************************)
(* Properties of aggregate_xmls.                                           *)
(***************************************************************************)
\* A document whose rows behind the header have 7 fields each, text or null.
WellFormed(doc) ==
    \A j \in (HeaderRows + 1)..Len(doc.rows) : Len(RowItems(doc.rows[j])) = 7

\* A document with no row behind the header that pretranslate_row raises on.
Pretranslatable(doc) ==
    \A j \in (HeaderRows + 1)..Len(doc.rows) : ~PretranslateRaises(RowItems(doc.rows[j]))

\* The records of one document: its marker, then its rows behind the first
\* HeaderRows, pretranslated.
C3_RecordsOf(doc) ==
    <<<<doc.name>>>> \o
    [k \in 1..(IF Len(doc.rows) > HeaderRows THEN Len(doc.rows) - HeaderRows ELSE 0) |->
        pretranslate_row(RowItems(doc.rows[HeaderRows + k]))]

C3_Table(docs) == Cat([i \in 1..Len(docs) |-> C3_RecordsOf(docs[i])])

RECURSIVE C3_Count(_)
\* The sum over the documents of 1 + max(0, rows - HeaderRows).
C3_Count(docs) ==
    IF docs = <<>> THEN 0
    ELSE 1 + (IF Len(Head(docs).rows) > HeaderRows THEN Len(Head(docs).rows) - HeaderRows ELSE 0)
           + C3_Count(Tail(docs))

IsPrefix(r, t) == Len(r) <= Len(t) /\ r = SubSeq(t, 1, Len(r))

\* C3 as claimed: on a list of well-formed documents aggregate_xmls comes to
\* write the table "marker of d1, rows of d1, marker of d2, rows of d2, ...":
\* it does not raise, the records written so far are at every moment the first
\* records of that table, and on return the records written are that table,
\* their number the sum of 1 + max(0, rows - 8).
C3_AsClaimed ==
    (pcA \notin {"idle", "call"} /\ \A i \in 1..Len(paths) : WellFormed(paths[i])) =>
        /\ pcA # "raised"
        /\ IsPrefix(agg_rows, C3_Table(paths))
        /\ pcA = "done" =>
               /\ agg_rows = C3_Table(paths)
               /\ Len(agg_rows) = C3_Count(paths)

\* C3 where it holds: the same on a list of well-formed documents no row of
\* which has a null Source with a Glossary; the records written so far are at
\* every moment the first records of the table (so no record of a document is
\* written before its marker or behind the next one), and the file is the
\* records as the writer writes them.
C3_Aggregate ==
    (pcA \notin {"idle", "call"}
         /\ \A i \in 1..Len(paths) : WellFormed(paths[i]) /\ Pretranslatable(paths[i])) =>
        /\ pcA # "raised"
        /\ IsPrefix(agg_rows, C3_Table(paths))
        /\ intermediate_csv = WriteRows(agg_rows)
        /\ pcA = "done" =>
               /\ agg_rows = C3_Table(paths)
               /\ Len(agg_rows) = C3_Count(paths)

\* aggregate_xmls has returned on two well-formed documents, one with two
\* data rows and one with no data row.
C3_WitnessReturned ==
    /\ pcA = "done"
    /\ Len(paths) = 2
    /\ \A i \in 1..Len(paths) : WellFormed(paths[i]) /\ Pretranslatable(paths[i])
    /\ Len(paths[1].rows) = HeaderRows + 2
    /\ Len(paths[2].rows) < HeaderRows
    /\ Len(agg_rows) = 4

\* aggregate_xmls has raised on a well-formed document of three data rows, the
\* second with a null Source and a Glossary: the table holds the marker and
\* the first row, not the four records of the document.
C3_Witness ==
    /\ pcA = "raised"
    /\ Len(paths) = 1
    /\ WellFormed(paths[1])
    /\ Len(paths[1].rows) = HeaderRows + 3
    /\ PretranslateRaises(RowItems(paths[1].rows[HeaderRows + 2]))
    /\ Len(agg_rows) = 2
    /\ C3_Count(paths) = 4

(***************************************************************************)
(* Properties of remove_systematic_errors.                                 *)
(***************************************************************************)
Occurs(t, sub) == \E p \in 1..Len(t) : StartsAt(t, sub, p)
Occurrences(t, sub) == Cardinality({p \in 1..Len(t) : StartsAt(t, sub, p)})

\* The largest k with the corrupted placeholder of every index 1..k in t.
C4_Run(t) ==
    CHOOSE k \in 0..Len(t) :
        /\ \A i \in 1..k : Occurs(t, Corrupted(i))
        /\ ~Occurs(t, Corrupted(k + 1))

\* t read once from the left, every corrupted placeholder of an index in 1..k
\* written in its canonical form and every other character as it is.
C4_Rewritten(t, k) ==
    LET IndexAt(p) == {i \in 1..k : StartsAt(t, Corrupted(i), p)}
        Inside(p) == \E q \in 1..(p - 1) : \E i \in IndexAt(q) : p < q + Len(Corrupted(i))
    IN  Cat([p \in 1..Len(t) |->
                IF IndexAt(p) # {} THEN Canonical(CHOOSE i \in IndexAt(p) : TRUE)
                ELSE IF Inside(p) THEN <<>>
                ELSE <<t[p]>>])

\* C4: for every 7-field row, with k the largest integer such that the
\* corrupted placeholder occurs in Target for every index in 1..k, the Target
\* written is the Target read with every corrupted placeholder of an index in
\* 1..k in its canonical form, and the corrupted placeholders of the indices
\* above k as they were.
C4_Repair ==
    \A n \in 1..Len(out_rows) :
        Len(read_rows[n]) = 7 =>
            LET t == At(read_rows[n], 3)
                out == At(out_rows[n], 3)
                k == C4_Run(t)
            IN  /\ out = C4_Rewritten(t, k)
                /\ \A i \in 1..k : ~Occurs(out, Corrupted(i))
                /\ \A j \in (k + 1)..(Len(t) + 1) :
                       Occurrences(out, Corrupted(j)) = Occurrences(t, Corrupted(j))

\* A row was written whose Target held the corrupted placeholders 1 (twice)
\* and 3 but not 2: both 1 are repaired, 3 is not.
C4_Witness ==
    \E n \in 1..Len(out_rows) :
        /\ Len(read_rows[n]) = 7
        /\ At(read_rows[n], 3) = Corrupted(1) \o Corrupted(3) \o Corrupted(1)
        /\ At(out_rows[n], 3) = Canonical(1) \o Corrupted(3) \o Canonical(1)

\* C5: a record read with a number of fields other than 7 is written with the
\* fields read; of a record of 7 fields the fields 0, 1, 2, 4, 5 and 6 are
\* written as read; the records are written one for one in the order read,
\* and on return as many records are written as the table holds.
C5_Frame ==
    /\ Len(out_rows) = Len(read_rows)
    /\ pcR \in {"loop", "done", "raised"} =>
           /\ read_rows \o pending = ReadRecords(intermediate_csv)
           /\ final_csv = WriteRows(out_rows)
    /\ \A n \in 1..Len(out_rows) :
           /\ Len(out_rows[n]) = Len(read_rows[n])
           /\ Len(read_rows[n]) # 7 => out_rows[n] = read_rows[n]
           /\ Len(read_rows[n]) = 7 =>
                  \A i \in {0, 1, 2, 4, 5, 6} : At(out_rows[n], i) = At(read_rows[n], i)
    /\ pcR = "done" =>
           /\ Len(out_rows) = Len(ReadRecords(intermediate_csv))
           /\ Len(ReadRecords(final_csv)) = Len(ReadRecords(intermediate_csv))

\* The function has returned on a table with a marker that holds a corrupted
\* placeholder, a row of 7 fields whose Target was repaired and a record of 8
\* fields with a corrupted placeholder at index 3.
C5_Witness ==
    /\ pcR = "done"
    /\ Len(out_rows) = 3
    /\ out_rows[1] = <<Corrupted(1)>>
    /\ Len(out_rows[2]) = 7 /\ At(out_rows[2], 3) # At(read_rows[2], 3)
    /\ Len(out_rows[3]) = 8 /\ At(out_rows[3], 3) = Corrupted(1)

\* A corrupted placeholder of some index occurs in t: '<x id = "', digits,
\* '" />'.
HasCorrupted(t) ==
    \E p \in 1..Len(t) : \E q \in (p + 1)..Len(t) :
        /\ StartsAt(t, <<"<", "x", " ", "i", "d", " ", "=", " ", "\"">>, p)
        /\ q > p + 9
        /\ \A d \in (p + 9)..(q - 1) : \E v \in 1..10 : DigitChars[v] = t[d]
        /\ StartsAt(t, <<"\"", " ", "/", ">">>, q)

\* C6 as claimed: when the table aggregate_xmls wrote holds no corrupted
\* placeholder in a Target, remove_systematic_errors writes for every 7-field
\* row the very text the table holds for it.
C6_AsClaimed ==
    (pcA = "done" /\ pcR = "done"
         /\ \A n \in 1..Len(agg_rows) :
                Len(agg_rows[n]) = 7 => ~HasCorrupted(At(agg_rows[n], 3))) =>
        /\ Len(out_rows) = Len(agg_rows)
        /\ \A n \in 1..Len(agg_rows) :
               Len(agg_rows[n]) = 7 => WriteRow(out_rows[n]) = WriteRow(agg_rows[n])

\* C6 where it holds: the same, for a table no field of which holds a
\* carriage return; the whole file is then written as it was read.
C6_WithoutCarriageReturn ==
    (pcA = "done" /\ pcR = "done"
         /\ \A n \in 1..Len(agg_rows) :
                /\ Len(agg_rows[n]) = 7 => ~HasCorrupted(At(agg_rows[n], 3))
                /\ \A i \in 1..Len(agg_rows[n]) :
                       \A c \in 1..Len(agg_rows[n][i]) : agg_rows[n][i][c] # CR) =>
        final_csv = intermediate_csv

\* Both functions have returned on the document whose Context holds a
\* carriage return and no placeholder: the final table is not the
\* intermediate one.
C6_Witness ==
    /\ pcA = "done" /\ pcR = "done"
    /\ Len(agg_rows) = 2
    /\ agg_rows[2] = pretranslate_row(RowItems(RowCarriageReturn))
    /\ ~HasCorrupted(At(agg_rows[2], 3))
    /\ WriteRow(out_rows[2]) # WriteRow(agg_rows[2])
    /\ final_csv # intermediate_csv

(***************************************************************************)
(* Properties of move_xml_files.                                           *)
(***************************************************************************)
\* The located file f is directly under the target under its own basename.
InTarget(f) == Moved(f) \in dst_dir

\* C7: when move_xml_files has returned, every file find_xml_files(source)
\* gave before the run is directly under the target under its basename, the
\* source root is a directory, and find_xml_files(source) gives nothing.
C7_Flattened ==
    pcM = "done" =>
        /\ located = find_xml_files(tree0)
        /\ \A f \in located : InTarget(f)
        /\ src_root = "dir"
        /\ find_xml_files(src_tree) = {}

\* The function has returned on a tree with a.xml two directories deep, b.xml
\* in the root and a file that is not .xml: both .xml files are under the
\* target and the source root is an empty directory.
C7_Witness ==
    /\ pcM = "done"
    /\ tree0 = { [dir |-> <<"d", "d">>, name |-> XmlName(<<"a">>)],
                 [dir |-> <<>>, name |-> XmlName(<<"b">>)],
                 [dir |-> <<>>, name |-> TxtName] }
    /\ dst_dir = {Moved(f) : f \in find_xml_files(tree0)}
    /\ src_tree = {} /\ src_root = "dir"

\* C8: no located file is ever absent from both the source tree and the
\* target; until every located file has been moved the source tree is as it
\* began but for the files moved; when a move has raised, the source root
\* stands, the files not reached are at their paths, the files moved are
\* under the target; and the tree is removed only with every file moved.
C8_MoveFailure ==
    /\ pcM # "idle" /\ pcM # "call" =>
           /\ located = find_xml_files(tree0)
           /\ to_move \subseteq located
           /\ \A f \in located : f \in src_tree \/ InTarget(f)
    /\ pcM \in {"moving", "raised"} =>
           /\ src_root = "dir"
           /\ src_tree = tree0 \ (located \ to_move)
           /\ \A f \in to_move : f \in src_tree
           /\ \A f \in located \ to_move : InTarget(f)
    /\ pcM \in {"mkdir", "done"} =>
           /\ to_move = {}
           /\ \A f \in located : InTarget(f)
    /\ src_root = "absent" => pcM = "mkdir"

\* A move has raised after one file was moved and with one not reached: the
\* second a.xml, which the first one moved stands in the way of.
C8_Witness ==
    /\ pcM = "raised"
    /\ \E f \in located \ to_move : \E g \in to_move :
           /\ f.name = g.name
           /\ InTarget(f) /\ f \notin src_tree
           /\ g \in src_tree /\ ~InTarget(g)
    /\ \E f \in src_tree : ~IsXml(f.name)

(***************************************************************************)
(* Properties of phase 2.                                                  *)
(***************************************************************************)
\* final.csv holds every record of the table, written whole.
FinalWritten ==
    /\ pcR = "done"
    /\ pending = <<>>
    /\ read_rows = ReadRecords(csv0)
    /\ Len(out_rows) = Len(read_rows)
    /\ final_csv = WriteRows(out_rows)

\* The intermediate directory is as phase 2 found it.
IntermediateInPlace ==
    /\ src_root = "dir"
    /\ src_tree = tree0
    /\ intermediate_csv = csv0

\* C10: move_xml_files has started only when remove_systematic_errors has
\* returned with final.csv written whole; till then the intermediate
\* directory is as it was found; and when the repair has raised,
\* move_xml_files is never started and the intermediate directory, its .xml
\* files and intermediate.csv are in place.
C10_Phase2Order ==
    /\ pcM # "idle" => FinalWritten
    /\ ~IntermediateInPlace => FinalWritten /\ pcM # "idle"
    /\ pcR = "raised" => pcM = "idle" /\ IntermediateInPlace

\* The repair has raised in its loop with a record written, and the
\* intermediate directory holds its .xml files and the table.
C10_WitnessAborted ==
    /\ pcR = "raised"
    /\ out_rows # <<>>
    /\ tree0 = IntermediateFiles
    /\ IntermediateInPlace

\* Phase 2 has run to its end: final.csv is written, the .xml files are under
\* final and intermediate.csv is gone with the tree.
C10_Witness ==
    /\ pcM = "done"
    /\ tree0 = IntermediateFiles
    /\ intermediate_csv = NoFile /\ csv0 # NoFile
    /\ final_csv # NoFile /\ final_csv # <<>>
    /\ \A f \in find_xml_files(tree0) : InTarget(f)

Spec == SpecPre
====
